---- MODULE Spec2Model ----
(***************************************************************************)
(* ghquick: the git Operations orchestrator (internal/git/operations.go)   *)
(* and the entry point (main.go).                                          *)
(*                                                                         *)
(* The repository is a small content model: every file has a content in    *)
(* the last commit (head), in the index and in the working tree.  The      *)
(* staged diff is index against head, the unstaged diff is working tree    *)
(* against index.  Every external command may fail for reasons outside the *)
(* repository (the outcome is an input of the step), and a failed command  *)
(* leaves the repository content as it was.                                *)
(***************************************************************************)
EXTENDS Integers, Sequences, FiniteSets, TLC

VARIABLES repo, last, hist, wf

vars == <<repo, last, hist, wf>>

\* ---------------------------------------------------------------- bounds
\* EnsureGitSetup calls followed from a directory without metadata.
MaxCalls == 3

\* ------------------------------------------------------------- the world
Files == {"a.txt", "b.txt"}
Contents == {0, 1}
LockFiles == {"index.lock", "HEAD.lock"}
User == "acct"
WorkingDir == "."
RepoNames == {"demo", "app"}
Messages == {"", "msg"}
Remotes == {"", "upstream"}
Branches == {"", "dev"}

Blank == [f \in Files |-> 0]

Repos ==
    { r \in [gitDir : BOOLEAN, origin : BOOLEAN,
             head : [Files -> Contents], index : [Files -> Contents],
             work : [Files -> Contents], locks : SUBSET LockFiles] :
        ~r.gitDir => (~r.origin /\ r.locks = {} /\ r.head = Blank /\ r.index = Blank) }

\* Text of a diff between two trees: one hunk per file that differs.
DiffText(from, to) == { <<f, from[f], to[f]>> : f \in { g \in Files : from[g] # to[g] } }

StagedDiff(r) == DiffText(r.head, r.index)
UnstagedDiff(r) == DiffText(r.index, r.work)

\* Output of status --porcelain: one line per file, with its staged (X) and
\* unstaged (Y) column.
StatusText(r) ==
    { <<f, r.head[f] # r.index[f], r.index[f] # r.work[f]>> :
        f \in { g \in Files : r.head[g] # r.index[g] \/ r.index[g] # r.work[g] } }

\* The staged set a status output reports.
StagedIn(status) == { l[1] : l \in { m \in status : m[2] } }

\* fmt.Sprintf("https://github.com/%s/%s.git", GITHUB_USERNAME, repoName)
RemoteURL(repoName) ==
    CASE repoName = "demo" -> "https://github.com/acct/demo.git"
      [] repoName = "app" -> "https://github.com/acct/app.git"

\* The external git binary: what one command does to the repository, whether
\* it exits 0, and what it prints.  envOk is false when the command fails for
\* a reason outside the repository; leave is the lock a killed writer leaves.
Git(r, args, envOk, leave) ==
    LET fail == [repo |-> r, ok |-> FALSE, out |-> {}]
        interrupted == [repo |-> [r EXCEPT !.locks = @ \cup leave], ok |-> FALSE, out |-> {}]
    IN CASE args[1] = "init" ->
              IF envOk THEN [repo |-> [r EXCEPT !.gitDir = TRUE], ok |-> TRUE, out |-> {}]
              ELSE fail
         [] args[1] = "config" ->
              [repo |-> r, ok |-> envOk, out |-> {}]
         [] args[1] = "remote" /\ args[2] = "get-url" ->
              [repo |-> r, ok |-> envOk /\ r.gitDir /\ r.origin, out |-> {}]
         [] args[1] = "remote" /\ args[2] = "add" ->
              IF envOk /\ r.gitDir /\ ~r.origin
              THEN [repo |-> [r EXCEPT !.origin = TRUE], ok |-> TRUE, out |-> {}]
              ELSE fail
         [] args[1] = "diff" /\ Len(args) = 2 ->
              IF envOk /\ r.gitDir THEN [repo |-> r, ok |-> TRUE, out |-> StagedDiff(r)]
              ELSE fail
         [] args[1] = "diff" /\ Len(args) = 1 ->
              IF envOk /\ r.gitDir THEN [repo |-> r, ok |-> TRUE, out |-> UnstagedDiff(r)]
              ELSE fail
         [] args[1] = "add" ->
              IF ~r.gitDir THEN fail
              ELSE IF envOk THEN [repo |-> [r EXCEPT !.index = r.work], ok |-> TRUE, out |-> {}]
              ELSE interrupted
         [] args[1] = "status" ->
              IF envOk /\ r.gitDir THEN [repo |-> r, ok |-> TRUE, out |-> StatusText(r)]
              ELSE fail
         [] args[1] = "commit" ->
              IF ~r.gitDir THEN fail
              ELSE IF envOk /\ r.index # r.head /\ args[3] # ""
              THEN [repo |-> [r EXCEPT !.head = r.index], ok |-> TRUE, out |-> {}]
              ELSE IF envOk THEN fail
              ELSE interrupted
         [] args[1] = "push" ->
              [repo |-> r, ok |-> envOk /\ r.gitDir /\ (args[3] = "origin" => r.origin),
               out |-> {}]

\* ------------------------------------------------------------ operations.go
\* One lock file of the loop in cleanupLocks: st is [locks, ok]; rm is the set
\* of files os.Remove succeeds on.
RemoveStale(st, lockFile, rm) ==
    IF ~st.ok \/ lockFile \notin st.locks THEN st
    ELSE IF lockFile \in rm THEN [st EXCEPT !.locks = @ \ {lockFile}]
    ELSE [st EXCEPT !.ok = FALSE]

\* Faulty variant: HEAD.lock is forgotten.
cleanupLocksIndexOnly(locks, rm) ==
    RemoveStale([locks |-> locks, ok |-> TRUE], "index.lock", rm)

cleanupLocks(locks, rm) ==
    RemoveStale(RemoveStale([locks |-> locks, ok |-> TRUE], "index.lock", rm),
                "HEAD.lock", rm)

\* A call in progress: the repository, the commands launched so far, and the
\* outcome of the last command.
Start(r) == [repo |-> r, trace |-> <<>>, ok |-> TRUE, out |-> {}]

Launch(c, args, envOk, leave, via) ==
    LET g == Git(c.repo, args, envOk, leave)
    IN [repo |-> g.repo,
        trace |-> Append(c.trace, [args |-> args, locks |-> c.repo.locks,
                                   ok |-> g.ok, via |-> via]),
        ok |-> g.ok, out |-> g.out]

\* exec.CommandContext(...).Run() / .Output() called directly.
Exec(c, args, envOk) == Launch(c, args, envOk, {}, "exec")

NeedsCleanup(name) == name = "git"

runCommand(c, name, args, e) ==
    LET cl == IF NeedsCleanup(name) THEN cleanupLocks(c.repo.locks, e.rm)
              ELSE [locks |-> c.repo.locks, ok |-> TRUE]
        c1 == [c EXCEPT !.repo.locks = cl.locks]
    IN IF ~cl.ok THEN [c1 EXCEPT !.ok = FALSE, !.out = {}]
       ELSE Launch(c1, args, e.ok, e.leave, "runCommand")

\* The outcomes the environment can give one runCommand.
Envs(r) ==
    { e \in [ok : BOOLEAN, rm : SUBSET r.locks, leave : SUBSET {"index.lock"}] :
        e.ok => e.leave = {} }

RunSet(c, args) == { runCommand(c, "git", args, e) : e \in Envs(c.repo) }
ExecSet(c, args) == { Exec(c, args, ok) : ok \in BOOLEAN }

\* What a call returns: its error ("ok" for nil), its value, the repository
\* it leaves and the commands it launched.
Ret(c, res, out) == [res |-> res, out |-> out, repo |-> c.repo, trace |-> c.trace]

configureGitUser(c) == ExecSet(c, <<"config", "--global", "user.name", User>>)

\* Faulty variant: init runs whether or not .git exists.
NeedsInitAlways(r) == TRUE

\* os.Stat(gitDir) reports that .git does not exist.
NeedsInit(r) == ~r.gitDir

EnsureGitSetup(r, repoName) ==
    LET inited == IF NeedsInit(r) THEN RunSet(Start(r), <<"init">>) ELSE {Start(r)}
        remote(c) ==
            UNION { IF g.ok THEN {Ret(g, "ok", {})}
                    ELSE { IF a.ok THEN Ret(a, "ok", {}) ELSE Ret(a, "err_remote", {}) :
                             a \in RunSet(g, <<"remote", "add", "origin", RemoteURL(repoName)>>) } :
                    g \in ExecSet(c, <<"remote", "get-url", "origin">>) }
        config(c) ==
            UNION { IF u.ok THEN remote(u) ELSE {Ret(u, "err_config", {})} :
                    u \in configureGitUser(c) }
    IN UNION { IF i.ok THEN config(i) ELSE {Ret(i, "err_init", {})} : i \in inited }

GetDiff(r) ==
    UNION { IF ~s.ok
            THEN { IF ~u.ok THEN Ret(u, "err_diff", {}) ELSE Ret(u, "ok", u.out) :
                     u \in ExecSet(s, <<"diff">>) }
            ELSE {Ret(s, "ok", s.out)} :
            s \in ExecSet(Start(r), <<"diff", "--cached">>) }

\* Faulty variant: the status output is not looked at.
NothingToCommitNever(output) == FALSE

\* len(output) == 0 on the status output.
NothingToCommit(output) == output = {}

\* Faulty variant: add <dir> runs after a successful add -A too.
TryExplicitPathAlways(a) == TRUE

\* err != nil on add -A.
TryExplicitPath(a) == ~a.ok

StageAll(r) ==
    LET verify(c) ==
            { IF ~s.ok THEN Ret(s, "err_status", {})
              ELSE IF NothingToCommit(s.out) THEN Ret(s, "nochanges", {})
              ELSE Ret(s, "ok", {}) :
              s \in ExecSet(c, <<"status", "--porcelain">>) }
    IN UNION { IF TryExplicitPath(a)
               THEN UNION { IF ~b.ok THEN {Ret(b, "err_stage", {})} ELSE verify(b) :
                            b \in RunSet(a, <<"add", WorkingDir>>) }
               ELSE verify(a) :
               a \in RunSet(Start(r), <<"add", "-A">>) }

\* Faulty variant: a failed commit unstages everything.
CommitWithRollback(r, message) ==
    { IF ~c.ok THEN Ret([c EXCEPT !.repo.index = c.repo.head], "err_commit", {})
      ELSE Ret(c, "ok", {}) :
      c \in RunSet(Start(r), <<"commit", "-m", message>>) }

Commit(r, message) ==
    { IF ~c.ok THEN Ret(c, "err_commit", {}) ELSE Ret(c, "ok", {}) :
      c \in RunSet(Start(r), <<"commit", "-m", message>>) }

DefaultRemote(remote) == IF remote = "" THEN "origin" ELSE remote

\* Faulty variant: the default branch is "master".
DefaultBranchMaster(branch) == IF branch = "" THEN "master" ELSE branch

DefaultBranch(branch) == IF branch = "" THEN "main" ELSE branch

Push(r, remote, branch) ==
    { IF ~c.ok THEN Ret(c, "err_push", {}) ELSE Ret(c, "ok", {}) :
      c \in RunSet(Start(r), <<"push", "-u", DefaultRemote(remote), DefaultBranch(branch)>>) }

\* ------------------------------------------------------------------ state
NoCall(r) == [op |-> "none", args |-> <<>>, res |-> "none", out |-> {},
              trace |-> <<>>, pre |-> r]

Call(op, args, o, r) == [op |-> op, args |-> args, res |-> o.res, out |-> o.out,
                         trace |-> o.trace, pre |-> r]

\* Number of launches of a command in a trace.
Launches(trace, verb) ==
    Cardinality({ i \in 1..Len(trace) : trace[i].args[1] = verb })

LaunchesOf(trace, verb, sub) ==
    Cardinality({ i \in 1..Len(trace) : trace[i].args[1] = verb /\ trace[i].args[2] = sub })

\* The EnsureGitSetup calls made since the start in a directory without
\* metadata, while each of them returned nil.
NoHist == [tracking |-> FALSE, calls |-> 0, inits |-> 0, adds |-> 0, configs |-> 0]

FreshHist == [NoHist EXCEPT !.tracking = TRUE]

Record(h, o) ==
    IF h.tracking /\ o.res = "ok"
    THEN [tracking |-> TRUE,
          calls |-> h.calls + 1,
          inits |-> h.inits + Launches(o.trace, "init"),
          adds |-> h.adds + LaunchesOf(o.trace, "remote", "add"),
          configs |-> h.configs + Launches(o.trace, "config")]
    ELSE NoHist

\* Faulty variant: the error of Execute is dropped.
ExitCodeAlwaysZero(failed) == 0

\* main: os.Exit(1) when Execute returns an error, a normal return otherwise.
ExitCode(failed) == IF failed THEN 1 ELSE 0

NotExited == 0 - 1

Init ==
    /\ repo \in Repos
    /\ last = NoCall(repo)
    /\ hist = IF repo.gitDir THEN NoHist ELSE FreshHist
    /\ wf = [pc |-> "EnsureSetup", log |-> <<>>, exit |-> NotExited]

\* ------------------------------------------- the operations, called freely
CallEnsureGitSetup ==
    /\ hist.tracking => hist.calls < MaxCalls
    /\ \E n \in RepoNames : \E o \in EnsureGitSetup(repo, n) :
          /\ repo' = o.repo
          /\ last' = Call("EnsureGitSetup", <<n>>, o, repo)
          /\ hist' = Record(hist, o)
    /\ UNCHANGED wf

CallGetDiff ==
    /\ \E o \in GetDiff(repo) :
          /\ repo' = o.repo
          /\ last' = Call("GetDiff", <<>>, o, repo)
    /\ UNCHANGED <<hist, wf>>

CallStageAll ==
    /\ \E o \in StageAll(repo) :
          /\ repo' = o.repo
          /\ last' = Call("StageAll", <<>>, o, repo)
    /\ UNCHANGED <<hist, wf>>

CallCommit ==
    /\ \E m \in Messages : \E o \in Commit(repo, m) :
          /\ repo' = o.repo
          /\ last' = Call("Commit", <<m>>, o, repo)
    /\ UNCHANGED <<hist, wf>>

CallPush ==
    /\ \E rem \in Remotes, br \in Branches : \E o \in Push(repo, rem, br) :
          /\ repo' = o.repo
          /\ last' = Call("Push", <<rem, br>>, o, repo)
    /\ UNCHANGED <<hist, wf>>

Next == CallEnsureGitSetup \/ CallGetDiff \/ CallStageAll \/ CallCommit \/ CallPush

Spec == Init /\ [][Next]_vars

\* ------------------------------------------------- the workflow of Execute
\* One operation of the pipeline: on an error Execute returns it and main
\* exits; after the last operation Execute returns nil.
Step(op, args, o, nextpc) ==
    LET failed == o.res # "ok"
        returns == failed \/ nextpc = "done"
    IN /\ repo' = o.repo
       /\ last' = Call(op, args, o, repo)
       /\ wf' = [pc |-> IF failed THEN "failed" ELSE nextpc,
                 log |-> Append(wf.log, [op |-> op, res |-> o.res, trace |-> o.trace]),
                 exit |-> IF returns THEN ExitCode(failed) ELSE NotExited]
       /\ UNCHANGED hist

RunEnsureSetup ==
    /\ wf.pc = "EnsureSetup"
    /\ \E n \in RepoNames : \E o \in EnsureGitSetup(repo, n) :
          Step("EnsureGitSetup", <<n>>, o, "GetChanges")

RunGetChanges ==
    /\ wf.pc = "GetChanges"
    /\ \E o \in GetDiff(repo) : Step("GetDiff", <<>>, o, "StageAll")

RunStageAll ==
    /\ wf.pc = "StageAll"
    /\ \E o \in StageAll(repo) : Step("StageAll", <<>>, o, "Commit")

RunCommit ==
    /\ wf.pc = "Commit"
    /\ \E m \in Messages : \E o \in Commit(repo, m) : Step("Commit", <<m>>, o, "Push")

RunPush ==
    /\ wf.pc = "Push"
    /\ \E rem \in Remotes, br \in Branches : \E o \in Push(repo, rem, br) :
          Step("Push", <<rem, br>>, o, "done")

NextWorkflow == RunEnsureSetup \/ RunGetChanges \/ RunStageAll \/ RunCommit \/ RunPush

SpecWorkflow == Init /\ [][NextWorkflow]_vars

\* ----------------------------------------------------------------- claims
Mutating(args) ==
    \/ args[1] \in {"init", "add", "commit", "push"}
    \/ args[1] = "remote" /\ args[2] = "add"

Verbs(trace) == [i \in 1..Len(trace) |-> trace[i].args[1]]

\* C1: when nothing is staged, the staged-diff command succeeds with empty
\* output and a tracked file is modified, GetDiff returns the non-empty
\* unstaged diff text.
C1_FallsBackWhenNothingStaged ==
    (/\ last.op = "GetDiff"
     /\ StagedDiff(last.pre) = {}
     /\ UnstagedDiff(last.pre) # {}
     /\ last.trace[1].ok)
    => (last.res = "ok" /\ last.out = UnstagedDiff(last.pre) /\ last.out # {})

\* C2: whenever staged changes exist, GetDiff returns exactly the staged diff
\* text, whatever the unstaged changes are; the unstaged diff is returned only
\* in states where the staged diff is empty.
C2_StagedDiffWins ==
    (last.op = "GetDiff" /\ last.res = "ok")
    => /\ StagedDiff(last.pre) # {} => last.out = StagedDiff(last.pre)
       /\ Verbs(last.trace) = <<"diff", "diff">> => StagedDiff(last.pre) = {}

\* The part of C2 the code keeps: when the staged-diff command succeeds, its
\* output is what GetDiff returns and the unstaged diff is never asked for.
C2_StagedOutputReturned ==
    (last.op = "GetDiff" /\ last.trace[1].ok)
    => (last.res = "ok" /\ last.out = StagedDiff(last.pre) /\ Len(last.trace) = 1)

\* C3: StageAll returns success only if the staged set is non-empty afterwards
\* (a status query right after it reports a non-empty staged set), and when
\* the working directory has no difference from the last commit it does not
\* succeed: it returns the no-changes error whenever its commands succeeded.
C3_StageAllVerified ==
    last.op = "StageAll"
    => /\ last.res = "ok" => StagedIn(StatusText(repo)) # {}
       /\ last.pre.work = last.pre.head
          => /\ last.res # "ok"
             /\ (last.trace # <<>> /\ last.trace[Len(last.trace)].args[1] = "status"
                 /\ last.trace[Len(last.trace)].ok) => last.res = "nochanges"

C3_Witness ==
    /\ last.op = "StageAll"
    /\ last.res = "ok"
    /\ UnstagedDiff(last.pre) # {}
    /\ StagedDiff(last.pre) = {}

PipelineOps == <<"EnsureGitSetup", "GetDiff", "StageAll", "Commit", "Push">>

LaunchedIn(log, verb) ==
    { i \in 1..Len(log) : \E k \in 1..Len(log[i].trace) : log[i].trace[k].args[1] = verb }

\* C4: the workflow runs EnsureSetup, GetChanges, StageAll, Commit, Push in
\* this order and halts at the first failure; commit is launched only after
\* StageAll returned success, push only after Commit returned success; with no
\* modification at all the run stops at StageAll; the exit code is 0 exactly
\* when all five operations succeeded and non-zero when one failed.
C4_StrictPipeline ==
    /\ Len(wf.log) <= Len(PipelineOps)
    /\ \A i \in 1..Len(wf.log) : wf.log[i].op = PipelineOps[i]
    /\ \A i \in 1..Len(wf.log) : i < Len(wf.log) => wf.log[i].res = "ok"
    /\ \A i \in LaunchedIn(wf.log, "commit") :
          \E j \in 1..(i - 1) : wf.log[j].op = "StageAll" /\ wf.log[j].res = "ok"
    /\ \A i \in LaunchedIn(wf.log, "push") :
          \E j \in 1..(i - 1) : wf.log[j].op = "Commit" /\ wf.log[j].res = "ok"
    /\ (last.op = "StageAll" /\ last.pre.work = last.pre.head /\ last.pre.index = last.pre.head)
       => (wf.pc = "failed" /\ LaunchedIn(wf.log, "commit") = {} /\ LaunchedIn(wf.log, "push") = {})
    /\ wf.exit = 0 <=> (Len(wf.log) = Len(PipelineOps)
                        /\ \A i \in 1..Len(wf.log) : wf.log[i].res = "ok")
    /\ wf.exit \in {NotExited, 0, 1}
    /\ wf.exit = 1 <=> (wf.log # <<>> /\ wf.log[Len(wf.log)].res # "ok")

C4_Witness ==
    /\ wf.exit = 1
    /\ last.op = "StageAll"
    /\ last.res = "nochanges"
    /\ last.pre.work = last.pre.head

\* C5: from a directory without metadata, a sequence of successful
\* EnsureGitSetup calls runs git init exactly once (in the first call), remote
\* add at most once, and the identity configuration in every call.
C5_SetupIdempotent ==
    (hist.tracking /\ hist.calls >= 1)
    => (hist.inits = 1 /\ hist.adds <= 1 /\ hist.configs = hist.calls)

C5_Witness ==
    /\ hist.tracking
    /\ hist.calls >= 2
    /\ last.op = "EnsureGitSetup"
    /\ Verbs(last.trace) = <<"config", "remote">>

\* C6: every repository-mutating command (init, remote add, add, commit, push)
\* is launched with neither lock file present.
C6_NoLockAtLaunch ==
    \A k \in 1..Len(last.trace) :
        Mutating(last.trace[k].args) => last.trace[k].locks = {}

C6_Witness ==
    /\ last.pre.locks = LockFiles
    /\ \E k \in 1..Len(last.trace) : Mutating(last.trace[k].args) /\ last.trace[k].ok

\* The step of EnsureGitSetup a launched command belongs to.
SetupStep(args) ==
    CASE args[1] = "init" -> 1
      [] args[1] = "config" -> 2
      [] args[1] = "remote" /\ args[2] = "get-url" -> 3
      [] args[1] = "remote" /\ args[2] = "add" -> 4

SetupError(step) ==
    CASE step = 1 -> "err_init"
      [] step = 2 -> "err_config"
      [] step = 4 -> "err_remote"

\* Order and error propagation of EnsureGitSetup: the steps run in the order
\* init, identity, remote check, remote add; init only without metadata; a
\* failed init, identity or remote add is the last command of the call and
\* its error is returned; nil is returned only if each of them succeeded.
SetupOrderAndErrors ==
    LET t == last.trace
        acts == { k \in 1..Len(t) : SetupStep(t[k].args) # 3 }
    IN /\ \A i, j \in 1..Len(t) : i < j => SetupStep(t[i].args) < SetupStep(t[j].args)
       /\ \A k \in 1..Len(t) : SetupStep(t[k].args) = 1 => ~last.pre.gitDir
       /\ \A k \in acts : ~t[k].ok => (k = Len(t) /\ last.res = SetupError(SetupStep(t[k].args)))
       /\ last.res = "ok" => \A k \in acts : t[k].ok

\* C7: EnsureGitSetup runs init (only if metadata is absent), identity
\* configuration, remote check, remote add (only if origin is absent) in this
\* order; a failure at one step returns the error without running a later
\* step, and success is returned only if every step it ran succeeded.
C7_SetupStepsAndErrors ==
    last.op = "EnsureGitSetup"
    => /\ SetupOrderAndErrors
       /\ \A k \in 1..Len(last.trace) :
             SetupStep(last.trace[k].args) = 4 => ~last.pre.origin

\* What the code keeps of C7: remote add runs only after a remote check that
\* exited non-zero.
C7_AddOnlyAfterFailedCheck ==
    last.op = "EnsureGitSetup"
    => /\ SetupOrderAndErrors
       /\ \A k \in 1..Len(last.trace) :
             SetupStep(last.trace[k].args) = 4
             => (k > 1 /\ SetupStep(last.trace[k - 1].args) = 3 /\ ~last.trace[k - 1].ok)

\* C8: Push launches push -u with remote "origin" when the remote argument is
\* empty and branch "main" when the branch argument is empty, each
\* independently, and with the arguments as given otherwise.
C8_PushDefaults ==
    last.op = "Push"
    => \A k \in 1..Len(last.trace) :
          last.trace[k].args =
              <<"push", "-u",
                IF last.args[1] = "" THEN "origin" ELSE last.args[1],
                IF last.args[2] = "" THEN "main" ELSE last.args[2]>>

C8_Witness ==
    /\ last.op = "Push"
    /\ last.args = <<"", "">>
    /\ last.res = "ok"
    /\ Len(last.trace) = 1

\* The commands the claim names as never retried.
NoRetry(args) ==
    \/ args[1] \in {"init", "config", "status", "commit", "push"}
    \/ args[1] = "remote" /\ args[2] = "add"

IsAdd(e, path) == e.args[1] = "add" /\ e.args[2] = path

\* C9: no command is launched twice in one call; StageAll launches add <dir>
\* only after add -A did not succeed and returns the staging failure only if
\* both attempts failed; GetDiff runs the second diff at most once; a failed
\* init, config, remote add, status, commit or push ends the call with an
\* error.
C9_OnlyTwoFallbacks ==
    LET t == last.trace
    IN /\ \A i, j \in 1..Len(t) : i # j => t[i].args # t[j].args
       /\ \A k \in 1..Len(t) :
             (NoRetry(t[k].args) /\ ~t[k].ok)
             => (k = Len(t) /\ last.res \notin {"ok", "nochanges"})
       /\ last.op = "StageAll"
          => /\ \A k \in 1..Len(t) :
                   IsAdd(t[k], WorkingDir) => \A i \in 1..Len(t) : IsAdd(t[i], "-A") => (i < k /\ ~t[i].ok)
             /\ last.res = "err_stage" => \A k \in 1..Len(t) : ~t[k].ok
             /\ (\E k \in 1..Len(t) : t[k].args[1] = "add" /\ t[k].ok) => last.res # "err_stage"
       /\ last.op = "GetDiff" => Len(t) <= 2

C9_Witness ==
    /\ last.op = "StageAll"
    /\ last.res = "ok"
    /\ Len(last.trace) = 3
    /\ IsAdd(last.trace[1], "-A") /\ ~last.trace[1].ok
    /\ IsAdd(last.trace[2], WorkingDir) /\ last.trace[2].ok

\* C10: a Commit that fails after a successful StageAll leaves the staged set
\* as StageAll produced it: the call launches nothing but the commit command
\* and the workflow halts.
C10_NoRollback ==
    (last.op = "Commit" /\ last.res # "ok")
    => /\ repo.index = last.pre.index
       /\ StagedDiff(repo) = StagedDiff(last.pre)
       /\ \A k \in 1..Len(last.trace) : last.trace[k].args[1] = "commit"
       /\ wf.pc = "failed"

C10_Witness ==
    /\ last.op = "Commit"
    /\ last.res = "err_commit"
    /\ wf.pc = "failed"
    /\ StagedDiff(repo) # {}
    /\ Len(wf.log) = 4 /\ wf.log[3].res = "ok"

====
